---- MODULE Spec2Model ----
(***************************************************************************)
(* The reconciliation cycle of the audiobook downloader (src/app/main.py): *)
(* library sync, restriction classification, integrity audit, download,   *)
(* file processing and cleanup, over the SQLite store (src/app/database.py)*)
(* and the two directories the program works on (staging = /app,          *)
(* asset tree = /audiobooks).                                              *)
(*                                                                         *)
(* Strings that the code parses (file names) are sequences of character    *)
(* codes; an asin is a one-character string <<k>>, k in 1..MaxAsin, so     *)
(* that ORDER BY asin is the order of k.  Character 0 is an id that is in  *)
(* no library listing (a vendor-substituted id).                           *)
(***************************************************************************)
EXTENDS Integers, Sequences, FiniteSets, TLC

\* ------------------------------------------------------------------ bounds
\* asins the store may hold when classification is checked on its own
MaxAsin == 3
\* asins the remote library offers in the full cycle, and items of one listing
MaxLibrary == 2
MaxListing == 2
MaxCycles == 2
\* config.py:29 sets 20; the model scales the batch size down with MaxAsin.
API_BATCH_SIZE == 2

VARIABLES
  pc,                 \* position of main.py's run() in the cycle
  startup,            \* importing main.py: how creating db and audible_api went
  cycle,              \* number of the running cycle (datetime.now() is its string)
  USE_FOLDERS,        \* config.py:18, read once from the environment
  library,            \* remote: what `audible library list` answered the sync
  db,                 \* table audiobooks: asin -> row
  staging,            \* AUDIOBOOK_DOWNLOAD_DIR: set of file names
  tree,               \* AUDIOBOOK_DIR: file name -> [readable, size]
  added_count,        \* update_library: rows inserted by the last sync
  added_asins,        \* history: the asins of those rows
  listing_synced,     \* history: syncs that fetched the remote listing as it is now
  unchecked_books,    \* check_all_restrictions: the list read at its start
  batch_i,            \* check_all_restrictions: loop index i (0-based)
  batch_log,          \* history: get_book_details calls of this classification
  single_log,         \* history: get_single_book_details calls of it
  answered,           \* history: asin -> what the last _process_batch got for it
  issues_found,       \* verify_and_fix: its return value
  fixed,              \* verify_and_fix: repairs that did not raise
  uncommitted,        \* verify_and_fix: asins whose UPDATE ran in a run that never committed
  downloadable_books, \* download_new_titles: the work set read at its start
  dl_done,            \* download_new_titles: entries the loop has passed
  dl_calls,           \* history: download_book calls of this pass, per asin
  cur,                \* _download_single_book: its asin, <<>> outside of it
  last_dl,            \* history: asin and outcome of the last download
  demoted,            \* history: asins demoted after a failed download
  soft_failed,        \* history: downloads of this pass that failed with no marker
  soft_failed_prev,   \* history: the same, of the pass before
  audiobooks,         \* process_downloaded_files: the files listed at its start
  plog                \* history: file -> outcome, for the files of this pass

sync_vars == <<library, added_count, added_asins, listing_synced>>
classify_vars == <<unchecked_books, batch_i, batch_log, single_log, answered>>
audit_vars == <<issues_found, fixed, uncommitted>>
acquire_vars == <<downloadable_books, dl_done, dl_calls, cur, last_dl, demoted,
                  soft_failed, soft_failed_prev>>
process_vars == <<audiobooks, plog>>

vars == <<pc, startup, cycle, USE_FOLDERS, db, staging, tree, sync_vars, classify_vars,
          audit_vars, acquire_vars, process_vars>>

\* ------------------------------------------------------------------ values
None == "NULL"

Asins == {<<k>> : k \in 1..MaxAsin}

RECURSIVE SeqsUpTo(_, _)
SeqsUpTo(S, n) ==
  IF n = 0 THEN {<<>>}
  ELSE LET shorter == SeqsUpTo(S, n - 1)
       IN shorter \cup {Append(s, x) : s \in {t \in shorter : Len(t) = n - 1}, x \in S}

\* Titles the remote may report for an asin, and the book dicts that
\* get_library_data builds from the items (authors go the same way as title).
Titles == {"t", "u"}

Items == [asin : {<<k>> : k \in 1..MaxLibrary}, title : Titles]

\* What the remote listing may be: an asin may be repeated, with the same
\* or another title.
Listings == SeqsUpTo(Items, MaxListing)

RECURSIVE OrderByAsin(_)
OrderByAsin(S) ==
  IF S = {} THEN <<>>
  ELSE LET m == CHOOSE a \in S : \A b \in S : a[1] <= b[1]
       IN <<m>> \o OrderByAsin(S \ {m})

Range(s) == {s[i] : i \in 1..Len(s)}

Min(a, b) == IF a <= b THEN a ELSE b

\* str.startswith, str.endswith, s[:-n] and s.split("_")[0] on character codes
StartsWith(s, prefix) ==
  Len(s) >= Len(prefix) /\ SubSeq(s, 1, Len(prefix)) = prefix

EndsWith(s, suffix) ==
  Len(s) >= Len(suffix) /\ SubSeq(s, Len(s) - Len(suffix) + 1, Len(s)) = suffix

DropLast(s, n) == SubSeq(s, 1, Len(s) - n)

SplitFirst(s) ==
  LET seps == {i \in 1..Len(s) : s[i] = 95}
  IN IF seps = {} THEN s
     ELSE SubSeq(s, 1, (CHOOSE i \in seps : \A j \in seps : i <= j) - 1)

\* ".aax", ".aaxc", ".m4b", ".voucher"
EXT_AAX == <<46, 97, 97, 120>>
EXT_AAXC == <<46, 97, 97, 120, 99>>
EXT_M4B == <<46, 109, 52, 98>>
EXT_VOUCHER == <<46, 118, 111, 117, 99, 104, 101, 114>>

\* FILENAME_MODE asin_ascii: "<id>_p<ext>", p standing for the title part
RawName(id, ext) == <<id, 95, 112>> \o ext

\* ------------------------------------------------------------------ store
NewRow(book) ==
  [title |-> book.title, downloaded |-> 0, is_downloadable |-> 1,
   restriction_reason |-> None, last_download_attempt |-> None]

\* add_book overwriting an existing row, as INSERT OR REPLACE would.
add_book_replace(d, book) ==
  [db |-> [a \in DOMAIN d \cup {book.asin} |-> IF a = book.asin THEN NewRow(book) ELSE d[a]],
   inserted |-> TRUE]

\* add_book that refreshes the title of a row it finds, as an upsert would.
add_book_update(d, book) ==
  IF book.asin \notin DOMAIN d
  THEN [db |-> [a \in DOMAIN d \cup {book.asin} |-> IF a = book.asin THEN NewRow(book) ELSE d[a]],
        inserted |-> TRUE]
  ELSE [db |-> [d EXCEPT ![book.asin].title = book.title], inserted |-> FALSE]

add_book(d, book) ==
  IF book.asin \notin DOMAIN d
  THEN [db |-> [a \in DOMAIN d \cup {book.asin} |-> IF a = book.asin THEN NewRow(book) ELSE d[a]],
        inserted |-> TRUE]
  ELSE [db |-> d, inserted |-> FALSE]

\* get_downloadable_books without its is_downloadable condition
get_downloadable_books_any(d) ==
  {a \in DOMAIN d : d[a].downloaded = 0}

\* mark_downloaded whose UPDATE matches no row
mark_downloaded_noop(d, asin) == d

\* get_unchecked_books selecting on downloaded = 0 alone
get_unchecked_books_all(d) ==
  OrderByAsin({a \in DOMAIN d : d[a].downloaded = 0})

get_unchecked_books(d) ==
  OrderByAsin({a \in DOMAIN d : /\ d[a].is_downloadable = 1
                                /\ d[a].restriction_reason = None
                                /\ d[a].downloaded = 0})

\* get_downloadable_books leaving out the rows that were attempted before
get_downloadable_books_fresh(d) ==
  {a \in DOMAIN d : /\ d[a].downloaded = 0
                    /\ d[a].is_downloadable = 1
                    /\ d[a].last_download_attempt = None}

get_downloadable_books(d) ==
  {a \in DOMAIN d : d[a].downloaded = 0 /\ d[a].is_downloadable = 1}

get_restricted_books(d) ==
  {a \in DOMAIN d : d[a].downloaded = 0 /\ d[a].is_downloadable = 0}

\* update_downloadability that leaves the reason column alone.
update_downloadability_flag_only(d, asin, is_downloadable, reason) ==
  IF asin \in DOMAIN d
  THEN [d EXCEPT ![asin].is_downloadable = IF is_downloadable THEN 1 ELSE 0]
  ELSE d

update_downloadability(d, asin, is_downloadable, reason) ==
  IF asin \in DOMAIN d
  THEN [d EXCEPT ![asin].is_downloadable = IF is_downloadable THEN 1 ELSE 0,
                 ![asin].restriction_reason = reason]
  ELSE d

\* update_download_attempt whose write is lost.
update_download_attempt_lost(d, asin, timestamp) == d

update_download_attempt(d, asin, timestamp) ==
  IF asin \in DOMAIN d
  THEN [d EXCEPT ![asin].last_download_attempt = timestamp]
  ELSE d

mark_downloaded(d, asin) ==
  IF asin \in DOMAIN d THEN [d EXCEPT ![asin].downloaded = 1] ELSE d

get_book_info(d, asin) == asin \in DOMAIN d

\* datetime.now().isoformat(): one instant per cycle
now == ToString(cycle)

\* ------------------------------------------------------------------ startup
\* The imports of main.py with every failure swallowed: run() is reached anyway.
Startup_swallows ==
  /\ pc = "start"
  /\ startup' \in {"ok", "store_failed", "activation_failed"}
  /\ pc' = "sync"
  /\ UNCHANGED <<cycle, USE_FOLDERS, db, staging, tree, sync_vars, classify_vars,
                 audit_vars, acquire_vars, process_vars>>

\* The imports of main.py create the module-level db (sqlite3.connect, the
\* table, the migrations) and audible_api (the activation bytes).  Either
\* constructor raising ends the process before run() is called.
Startup ==
  /\ pc = "start"
  /\ startup' \in {"ok", "store_failed", "activation_failed"}
  /\ pc' = IF startup' = "ok" THEN "sync" ELSE "aborted"
  /\ UNCHANGED <<cycle, USE_FOLDERS, db, staging, tree, sync_vars, classify_vars,
                 audit_vars, acquire_vars, process_vars>>

\* ------------------------------------------------------------------ sync
\* The loop of update_library over books_data: the store and added_count.
\* get_library_data hands back [] when the call fails, and the loop does not run.
RECURSIVE update_library(_, _)
update_library(d, books_data) ==
  IF books_data = <<>> THEN [db |-> d, added_count |-> 0]
  ELSE LET r == add_book(d, Head(books_data))
           rest == update_library(r.db, Tail(books_data))
       IN [db |-> rest.db,
           added_count |-> rest.added_count + (IF r.inserted THEN 1 ELSE 0)]

\* update_library ending the cycle when it has no library data.
Sync_ends_cycle_when_empty ==
  /\ pc = "sync"
  /\ \E books_data \in Listings :
       LET r == update_library(db, books_data)
       IN /\ db' = r.db /\ added_count' = r.added_count /\ library' = books_data
          /\ added_asins' = DOMAIN r.db \ DOMAIN db
          /\ pc' = IF books_data = <<>> THEN "idle" ELSE "classify_start"
  /\ UNCHANGED <<startup, cycle, USE_FOLDERS, staging, tree, listing_synced,
                 classify_vars, audit_vars, acquire_vars, process_vars>>

\* Step 1 of run(): the remote answers any listing, or the call fails.
Sync ==
  /\ pc = "sync"
  /\ \E books_data \in Listings :
       LET r == update_library(db, books_data)
       IN /\ db' = r.db /\ added_count' = r.added_count /\ library' = books_data
          /\ added_asins' = DOMAIN r.db \ DOMAIN db
  /\ pc' = "classify_start"
  /\ UNCHANGED <<startup, cycle, USE_FOLDERS, staging, tree, listing_synced,
                 classify_vars, audit_vars, acquire_vars, process_vars>>

\* ------------------------------------------------------------------ classification
Flags ==
  [is_ayce : BOOLEAN, benefit_id : {None, "AYCL"}, is_purchasability_suppressed : BOOLEAN]

ReasonPlus == "Audible Plus catalog book (streaming only)"
ReasonSuppressed == "Purchase suppressed by publisher"
ReasonNoData == "No API data available (may be invalid ASIN)"
ReasonError == "Error during check: <e>"
ReasonDetected == "Detected as non-downloadable during download attempt"

\* _analyze_book_restrictions testing the purchase suppression first
_analyze_book_restrictions_swapped(book_data) ==
  IF book_data.is_purchasability_suppressed
  THEN [is_downloadable |-> FALSE, reason |-> ReasonSuppressed]
  ELSE IF book_data.is_ayce \/ book_data.benefit_id = "AYCL"
       THEN [is_downloadable |-> FALSE, reason |-> ReasonPlus]
       ELSE [is_downloadable |-> TRUE, reason |-> None]

_analyze_book_restrictions(book_data) ==
  IF book_data.is_ayce \/ book_data.benefit_id = "AYCL"
  THEN [is_downloadable |-> FALSE, reason |-> ReasonPlus]
  ELSE IF book_data.is_purchasability_suppressed
       THEN [is_downloadable |-> FALSE, reason |-> ReasonSuppressed]
       ELSE [is_downloadable |-> TRUE, reason |-> None]

_update_book_status(d, asin, verdict) ==
  update_downloadability(d, asin, verdict.is_downloadable, verdict.reason)

\* What get_book_details may answer for a batch: items for some of the asked
\* asins, each asin at most once; no item at all is the failed or empty answer.
BatchAnswers(asins) ==
  UNION {[S -> Flags] : S \in SUBSET Range(asins)}

\* What get_single_book_details hands back for one asin: an item, nothing
\* (call failed or no item), or an item whose analysis raises.
SingleAnswers ==
  {[kind |-> "none"], [kind |-> "raises"]} \cup {[kind |-> "item", data |-> f] : f \in Flags}

\* How one `audible api` call for a single asin can go: the call fails (exit
\* code, no output, bad JSON, subprocess error), it succeeds with no item, or
\* it succeeds with an item (one that the analysis can read, or not).
SingleCalls ==
  {[kind |-> "failed"], [kind |-> "no_item"], [kind |-> "raises"]}
    \cup {[kind |-> "item", data |-> f] : f \in Flags}

\* get_single_book_details: None for a failed call as for an empty answer
get_single_book_details(call) ==
  IF call.kind \in {"failed", "no_item"} THEN [kind |-> "none"] ELSE call

RECURSIVE _process_batch_response(_, _, _)
_process_batch_response(d, items, todo) ==
  IF todo = <<>> THEN d
  ELSE IF Head(todo) \in DOMAIN items
       THEN _process_batch_response(
              _update_book_status(d, Head(todo), _analyze_book_restrictions(items[Head(todo)])),
              items, Tail(todo))
       ELSE _process_batch_response(d, items, Tail(todo))

RECURSIVE _process_individual_books(_, _, _)
_process_individual_books(d, batch, answers) ==
  IF batch = <<>> THEN d
  ELSE LET asin == Head(batch)
           book_data == answers[asin]
           d1 == CASE book_data.kind = "item" ->
                        _update_book_status(d, asin, _analyze_book_restrictions(book_data.data))
                   [] book_data.kind = "none" ->
                        update_downloadability(d, asin, FALSE, ReasonNoData)
                   [] OTHER ->
                        update_downloadability(d, asin, FALSE, ReasonError)
       IN _process_individual_books(d1, Tail(batch), answers)

\* check_all_restrictions up to its loop: read the work list.  The listing
\* of the sync is out of scope by now.
ClassifyStart ==
  /\ pc = "classify_start"
  /\ unchecked_books' = get_unchecked_books(db)
  /\ batch_i' = 0
  /\ batch_log' = <<>>
  /\ single_log' = <<>>
  /\ answered' = <<>>
  /\ library' = <<>>
  /\ pc' = "classify"
  /\ UNCHANGED <<startup, cycle, USE_FOLDERS, db, staging, tree, added_count, added_asins,
                 listing_synced,
                 audit_vars, acquire_vars, process_vars>>

\* A slicing that runs one entry past the batch size.
Batch_overlap(i) ==
  SubSeq(unchecked_books, i + 1, Min(i + API_BATCH_SIZE + 1, Len(unchecked_books)))

\* unchecked_books[i:i+API_BATCH_SIZE]
Batch(i) ==
  SubSeq(unchecked_books, i + 1, Min(i + API_BATCH_SIZE, Len(unchecked_books)))

\* One iteration of the loop: _process_batch on the slice at i.
_process_batch ==
  /\ pc = "classify"
  /\ batch_i < Len(unchecked_books)
  /\ LET batch == Batch(batch_i)
     IN \E api_data \in BatchAnswers(batch) :
          IF DOMAIN api_data # {}
          THEN /\ db' = _process_batch_response(db, api_data, batch)
               /\ batch_log' = Append(batch_log, [asins |-> batch, ok |-> TRUE])
               /\ single_log' = single_log
               /\ answered' = [a \in DOMAIN api_data |->
                                 [path |-> "batch",
                                  call |-> [kind |-> "item", data |-> api_data[a]]]]
          ELSE \E calls \in [Range(batch) -> SingleCalls] :
                 LET answers == [a \in Range(batch) |-> get_single_book_details(calls[a])]
                 IN /\ answers \in [Range(batch) -> SingleAnswers]
                    /\ db' = _process_individual_books(db, batch, answers)
                    /\ batch_log' = Append(batch_log, [asins |-> batch, ok |-> FALSE])
                    /\ single_log' = single_log \o batch
                    /\ answered' = [a \in Range(batch) |->
                                      [path |-> "single", call |-> calls[a]]]
  /\ batch_i' = batch_i + API_BATCH_SIZE
  /\ UNCHANGED <<pc, startup, cycle, USE_FOLDERS, staging, tree, sync_vars, unchecked_books,
                 audit_vars, acquire_vars, process_vars>>

\* check_all_restrictions returning into the download step, the audit skipped.
ClassifyDone_skips_audit ==
  /\ pc = "classify"
  /\ batch_i >= Len(unchecked_books)
  /\ pc' = "acquire_start"
  /\ answered' = <<>>
  /\ UNCHANGED <<startup, cycle, USE_FOLDERS, db, staging, tree, sync_vars, unchecked_books,
                 batch_i, batch_log, single_log, audit_vars, acquire_vars, process_vars>>

\* The loop is over: check_all_restrictions returns.
ClassifyDone ==
  /\ pc = "classify"
  /\ batch_i >= Len(unchecked_books)
  /\ pc' = "audit"
  /\ answered' = <<>>
  /\ UNCHANGED <<startup, cycle, USE_FOLDERS, db, staging, tree, sync_vars, unchecked_books,
                 batch_i, batch_log, single_log, audit_vars, acquire_vars, process_vars>>

\* ------------------------------------------------------------------ audit
\* 1024 * 1024 bytes: below it a file counts as corrupted
MinSize == 1024 * 1024

\* os.path.getsize and os.path.exists both stat the file: where stat fails,
\* getsize raises OSError and exists answers False.
getsize_raises(t, f) == ~t[f].readable

exists(t, f) == f \in DOMAIN t /\ t[f].readable

found_files(t, asin) ==
  {f \in DOMAIN t : /\ StartsWith(f, asin)
                    /\ \/ EndsWith(f, EXT_M4B)
                       \/ EndsWith(f, EXT_AAX)
                       \/ EndsWith(f, EXT_AAXC)}

books_downloaded(d) == {a \in DOMAIN d : d[a].downloaded = 1}

missing_asins(d, t) == {a \in books_downloaded(d) : found_files(t, a) = {}}

\* the size test of the scan loop with the threshold one byte too low
is_corrupted_lax(t, f) == getsize_raises(t, f) \/ t[f].size < MinSize - 1

is_corrupted(t, f) == getsize_raises(t, f) \/ t[f].size < MinSize

\* corrupted_files: one item per bad file, as [asin, file]
corrupted_files(d, t) ==
  UNION {{[asin |-> a, file |-> f] : f \in {g \in found_files(t, a) : is_corrupted(t, g)}}
           : a \in books_downloaded(d)}

\* The repair loops, where os.remove raises for the files in `stuck`:
\* an item whose removal raises skips its UPDATE.
repaired_items(d, t, stuck) ==
  {item \in corrupted_files(d, t) : ~(exists(t, item.file) /\ item.file \in stuck)}

removed_files(d, t, stuck) ==
  {item.file : item \in {i \in repaired_items(d, t, stuck) : exists(t, i.file)}}

reset_asins(d, t, stuck) ==
  missing_asins(d, t) \cup {item.asin : item \in repaired_items(d, t, stuck)}

\* the repairs deleting the rows they should reset
apply_resets_delete(d, asins) == [a \in DOMAIN d \ asins |-> d[a]]

\* the repair's UPDATE clearing the attempt stamp along with the flag
apply_resets_wipe(d, asins) ==
  [a \in DOMAIN d |-> IF a \in asins
                      THEN [d[a] EXCEPT !.downloaded = 0, !.last_download_attempt = None]
                      ELSE d[a]]

\* UPDATE audiobooks SET downloaded = 0 WHERE asin = ?, for each repaired asin
apply_resets(d, asins) ==
  [a \in DOMAIN d |-> IF a \in asins THEN [d[a] EXCEPT !.downloaded = 0] ELSE d[a]]

\* sys.exit(verify_and_fix()): the exit status the parent reads is the low
\* eight bits of the value.
sys_exit(n) == n % 256

\* Step 3 of run(): auto_integrity_check.py in a subprocess, committing once at
\* its end; `failed` is its outer except (returns -1, nothing committed).
Audit ==
  /\ pc = "audit"
  /\ \E failed \in BOOLEAN :
       IF failed
       THEN /\ issues_found' = -1
            /\ UNCHANGED <<db, tree, fixed, uncommitted>>
       ELSE \E stuck \in SUBSET {i.file : i \in corrupted_files(db, tree)} :
              /\ issues_found' =
                   Cardinality(missing_asins(db, tree)) + Cardinality(corrupted_files(db, tree))
              /\ fixed' =
                   Cardinality(missing_asins(db, tree))
                     + Cardinality(repaired_items(db, tree, stuck))
              /\ db' = apply_resets(db, reset_asins(db, tree, stuck))
              /\ tree' = [f \in DOMAIN tree \ removed_files(db, tree, stuck) |-> tree[f]]
              /\ uncommitted' = {}
  /\ pc' = "acquire_start"
  /\ unchecked_books' = <<>>
  /\ batch_i' = 0
  /\ batch_log' = <<>>
  /\ single_log' = <<>>
  /\ answered' = <<>>
  /\ UNCHANGED <<startup, cycle, USE_FOLDERS, staging, sync_vars, acquire_vars, process_vars>>

\* ------------------------------------------------------------------ acquisition
\* download_new_titles up to its loop: read the two sets, report the restricted.
AcquireStart ==
  /\ pc = "acquire_start"
  /\ downloadable_books' = get_downloadable_books(db)
  /\ dl_done' = {}
  /\ dl_calls' = [a \in get_downloadable_books(db) |-> 0]
  /\ last_dl' = [asin |-> <<>>, result |-> "none"]
  /\ soft_failed' = {}
  /\ soft_failed_prev' = soft_failed
  /\ pc' = "acquire"
  /\ UNCHANGED <<startup, cycle, USE_FOLDERS, db, staging, tree, sync_vars, classify_vars,
                 audit_vars, cur, demoted, process_vars>>

\* _download_single_book, first half: the timestamp is written and committed.
StampAttempt ==
  /\ pc = "acquire"
  /\ \E asin \in downloadable_books \ dl_done :
       /\ cur' = asin
       /\ db' = update_download_attempt(db, asin, now)
  /\ pc' = "download"
  /\ UNCHANGED <<startup, cycle, USE_FOLDERS, staging, tree, sync_vars, classify_vars, audit_vars,
                 downloadable_books, dl_done, dl_calls, last_dl, demoted, soft_failed,
                 soft_failed_prev, process_vars>>

\* What a successful `audible download` leaves in staging: the .aaxc with its
\* voucher, or the .aax fallback; the vendor may name the file after another id.
Deliveries(asin) ==
  {{RawName(id[1], EXT_AAXC), RawName(id[1], EXT_VOUCHER)} : id \in {asin, <<0>>}}
    \cup {{RawName(asin[1], EXT_AAX)}}

\* check_download_error: the marker found, not found, or the probe raised
check_download_error(probe) ==
  IF probe = "is not downloadable" THEN ReasonDetected ELSE None

\* _download_single_book setting downloaded = 1 itself when download_book succeeded.
Download_marks ==
  /\ pc = "download"
  /\ \/ \E files \in Deliveries(cur) :
          /\ staging' = staging \cup files
          /\ last_dl' = [asin |-> cur, result |-> "ok"]
          /\ db' = mark_downloaded(db, cur)
          /\ UNCHANGED <<demoted, soft_failed>>
     \/ \E probe \in {"is not downloadable", "other output", "raised"} :
          LET error_reason == check_download_error(probe)
          IN /\ last_dl' = [asin |-> cur, result |-> probe]
             /\ IF error_reason # None
                THEN /\ db' = update_downloadability(db, cur, FALSE, error_reason)
                     /\ demoted' = demoted \cup {cur}
                     /\ soft_failed' = soft_failed
                ELSE /\ soft_failed' = soft_failed \cup {cur}
                     /\ UNCHANGED <<db, demoted>>
             /\ staging' = staging
  /\ dl_done' = dl_done \cup {cur}
  /\ dl_calls' = [dl_calls EXCEPT ![cur] = @ + 1]
  /\ cur' = <<>>
  /\ pc' = "acquire"
  /\ UNCHANGED <<startup, cycle, USE_FOLDERS, tree, sync_vars, classify_vars, audit_vars,
                 downloadable_books, soft_failed_prev, process_vars>>

\* _download_single_book, second half: download_book, then the probe on failure.
Download ==
  /\ pc = "download"
  /\ \/ \E files \in Deliveries(cur) :
          /\ staging' = staging \cup files
          /\ last_dl' = [asin |-> cur, result |-> "ok"]
          /\ UNCHANGED <<db, demoted, soft_failed>>
     \/ \E probe \in {"is not downloadable", "other output", "raised"} :
          LET error_reason == check_download_error(probe)
          IN /\ last_dl' = [asin |-> cur, result |-> probe]
             /\ IF error_reason # None
                THEN /\ db' = update_downloadability(db, cur, FALSE, error_reason)
                     /\ demoted' = demoted \cup {cur}
                     /\ soft_failed' = soft_failed
                ELSE /\ soft_failed' = soft_failed \cup {cur}
                     /\ UNCHANGED <<db, demoted>>
             /\ staging' = staging
  /\ dl_done' = dl_done \cup {cur}
  /\ dl_calls' = [dl_calls EXCEPT ![cur] = @ + 1]
  /\ cur' = <<>>
  /\ pc' = "acquire"
  /\ UNCHANGED <<startup, cycle, USE_FOLDERS, tree, sync_vars, classify_vars, audit_vars,
                 downloadable_books, soft_failed_prev, process_vars>>

\* The loop of download_new_titles given up at the first download that failed.
AcquireDone_on_failure ==
  /\ pc = "acquire"
  /\ downloadable_books \ dl_done = {} \/ last_dl.result \notin {"ok", "none"}
  /\ pc' = "process_start"
  /\ UNCHANGED <<startup, cycle, USE_FOLDERS, db, staging, tree, sync_vars, classify_vars,
                 audit_vars, acquire_vars, process_vars>>

AcquireDone ==
  /\ pc = "acquire"
  /\ downloadable_books \ dl_done = {}
  /\ pc' = "process_start"
  /\ UNCHANGED <<startup, cycle, USE_FOLDERS, db, staging, tree, sync_vars, classify_vars,
                 audit_vars, acquire_vars, process_vars>>

\* ------------------------------------------------------------------ processing
_get_downloaded_files(s) ==
  {f \in s : EndsWith(f, EXT_AAX) \/ EndsWith(f, EXT_AAXC)}

ProcessStart ==
  /\ pc = "process_start"
  /\ audiobooks' = _get_downloaded_files(staging)
  /\ plog' = <<>>
  /\ pc' = "process"
  /\ UNCHANGED <<startup, cycle, USE_FOLDERS, db, staging, tree, sync_vars, classify_vars,
                 audit_vars, acquire_vars>>

\* _find_original_asin is a placeholder that finds nothing.
_find_original_asin(audiobook_file) == None

\* _validate_asin that lets every file through.
_validate_asin_always(d, asin, audiobook_file) == TRUE

_validate_asin(d, asin, audiobook_file) ==
  IF ~get_book_info(d, asin)
  THEN FALSE
  ELSE TRUE

\* base_name + ".m4b"
dest_name(audiobook_file) ==
  LET is_aax == EndsWith(audiobook_file, <<97, 97, 120>>)
      base_name == IF ~is_aax THEN DropLast(audiobook_file, 4)
                   ELSE DropLast(audiobook_file, 3)
  IN base_name \o EXT_M4B

\* os.path.join(AUDIOBOOK_DIR, asin), or None when the store has no such row
\* (os.makedirs raising is the "no_folder" outcome below).
_create_audiobook_folder(d, asin) ==
  IF ~get_book_info(d, asin)
  THEN [kind |-> "none"]
  ELSE [kind |-> "asin", asin |-> asin]

\* dest_path of _convert_and_organize: the folder, and the file name in it,
\* which is built from the raw file's name.
dest_path(d, audiobook_file, asin) ==
  [folder |-> IF USE_FOLDERS THEN _create_audiobook_folder(d, asin) ELSE [kind |-> "flat"],
   file |-> [kind |-> "raw_name", name |-> dest_name(audiobook_file)]]

\* How _convert_and_organize can end for a file whose destination is dest:
\* the folder cannot be made (folder mode), the stale destination that
\* os.path.exists sees cannot be removed, FFmpeg fails, or FFmpeg succeeds.
ConvertOutcomes(t, dest) ==
  {"ffmpeg_failed", "converted"}
    \cup (IF USE_FOLDERS THEN {"no_folder"} ELSE {})
    \cup (IF exists(t, dest) THEN {"dest_locked"} ELSE {})

\* _convert_audiobook removing the source whatever FFmpeg's exit code was.
source_after_convert_any(s, src, outcome) ==
  IF outcome \in {"converted", "ffmpeg_failed"} THEN s \ {src} ELSE s

\* staging after _convert_and_organize: os.remove(src_path) under returncode == 0
source_after_convert(s, src, outcome) ==
  IF outcome = "converted" THEN s \ {src} ELSE s

\* sizes FFmpeg's output may have when it exits 0
OutputSizes == {MinSize - 1, MinSize}

\* _process_single_file calling mark_downloaded only once FFmpeg has succeeded.
ProcessFile_marks_on_success ==
  /\ pc = "process"
  /\ \E audiobook_file \in audiobooks \ DOMAIN plog :
       LET asin == SplitFirst(audiobook_file)
           dest == dest_name(audiobook_file)
       IN IF ~_validate_asin(db, asin, audiobook_file)
          THEN /\ plog' = [f \in DOMAIN plog \cup {audiobook_file} |->
                             IF f = audiobook_file THEN "unresolved" ELSE plog[f]]
               /\ UNCHANGED <<db, staging, tree>>
          ELSE \E outcome \in ConvertOutcomes(tree, dest) :
                 /\ db' = IF outcome = "converted" THEN mark_downloaded(db, asin) ELSE db
                 /\ plog' = [f \in DOMAIN plog \cup {audiobook_file} |->
                               IF f = audiobook_file THEN outcome ELSE plog[f]]
                 /\ staging' = source_after_convert(staging, audiobook_file, outcome)
                 /\ CASE outcome = "converted" ->
                           \E size \in OutputSizes :
                             tree' = [f \in DOMAIN tree \cup {dest} |->
                                        IF f = dest
                                        THEN [readable |-> TRUE, size |-> size]
                                        ELSE tree[f]]
                      [] outcome = "ffmpeg_failed" ->
                           tree' = IF exists(tree, dest)
                                   THEN [f \in DOMAIN tree \ {dest} |-> tree[f]]
                                   ELSE tree
                      [] OTHER ->
                           tree' = tree
  /\ UNCHANGED <<pc, startup, cycle, USE_FOLDERS, sync_vars, classify_vars, audit_vars,
                 acquire_vars, audiobooks>>

\* _process_single_file for one listed file.
ProcessFile ==
  /\ pc = "process"
  /\ \E audiobook_file \in audiobooks \ DOMAIN plog :
       LET asin == SplitFirst(audiobook_file)
           dest == dest_name(audiobook_file)
       IN IF ~_validate_asin(db, asin, audiobook_file)
          THEN /\ plog' = [f \in DOMAIN plog \cup {audiobook_file} |->
                             IF f = audiobook_file THEN "unresolved" ELSE plog[f]]
               /\ UNCHANGED <<db, staging, tree>>
          ELSE /\ db' = mark_downloaded(db, asin)
               /\ \E outcome \in ConvertOutcomes(tree, dest) :
                    /\ plog' = [f \in DOMAIN plog \cup {audiobook_file} |->
                                  IF f = audiobook_file THEN outcome ELSE plog[f]]
                    /\ staging' = source_after_convert(staging, audiobook_file, outcome)
                    /\ CASE outcome = "converted" ->
                              \E size \in OutputSizes :
                                tree' = [f \in DOMAIN tree \cup {dest} |->
                                           IF f = dest
                                           THEN [readable |-> TRUE, size |-> size]
                                           ELSE tree[f]]
                         [] outcome = "ffmpeg_failed" ->
                              tree' = IF exists(tree, dest)
                                      THEN [f \in DOMAIN tree \ {dest} |-> tree[f]]
                                      ELSE tree
                         [] OTHER ->
                              tree' = tree
  /\ UNCHANGED <<pc, startup, cycle, USE_FOLDERS, sync_vars, classify_vars, audit_vars,
                 acquire_vars, audiobooks>>

ProcessDone ==
  /\ pc = "process"
  /\ audiobooks \ DOMAIN plog = {}
  /\ pc' = "cleanup"
  /\ UNCHANGED <<startup, cycle, USE_FOLDERS, db, staging, tree, sync_vars, classify_vars,
                 audit_vars, acquire_vars, process_vars>>

\* cleanup_temp_files: the vouchers left in staging are removed.
Cleanup ==
  /\ pc = "cleanup"
  /\ staging' = {f \in staging : ~EndsWith(f, EXT_VOUCHER)}
  /\ pc' = "idle"
  /\ UNCHANGED <<startup, cycle, USE_FOLDERS, db, tree, sync_vars, classify_vars,
                 audit_vars, acquire_vars, process_vars>>

\* ------------------------------------------------------------------ between cycles
\* What may happen to the asset tree while the program sleeps: nothing, a
\* file vanishes, is truncated, or stops being readable.
Drift(t) ==
  {t} \cup {[f \in DOMAIN t \ {g} |-> t[f]] : g \in DOMAIN t}
      \cup {[t EXCEPT ![g] = [readable |-> TRUE, size |-> 0]] : g \in DOMAIN t}
      \cup {[t EXCEPT ![g] = [readable |-> FALSE, size |-> 0]] : g \in DOMAIN t}

\* The process is started again: main.py is imported anew.
NextCycle ==
  /\ pc \in {"idle", "aborted"}
  /\ cycle < MaxCycles
  /\ cycle' = cycle + 1
  /\ startup' = "pending"
  /\ tree' \in Drift(tree)
  /\ audiobooks' = {}
  /\ plog' = <<>>
  /\ pc' = "start"
  /\ UNCHANGED <<USE_FOLDERS, db, staging, sync_vars, classify_vars, audit_vars,
                 acquire_vars>>

Init ==
  /\ pc = "start"
  /\ startup = "pending"
  /\ cycle = 1
  /\ USE_FOLDERS \in BOOLEAN
  /\ library = <<>>
  /\ db = <<>>
  /\ staging = {}
  /\ tree = <<>>
  /\ added_count = 0
  /\ added_asins = {}
  /\ listing_synced = 0
  /\ unchecked_books = <<>>
  /\ batch_i = 0
  /\ batch_log = <<>>
  /\ single_log = <<>>
  /\ answered = <<>>
  /\ issues_found = 0
  /\ fixed = 0
  /\ uncommitted = {}
  /\ downloadable_books = {}
  /\ dl_done = {}
  /\ dl_calls = <<>>
  /\ cur = <<>>
  /\ last_dl = [asin |-> <<>>, result |-> "none"]
  /\ demoted = {}
  /\ soft_failed = {}
  /\ soft_failed_prev = {}
  /\ audiobooks = {}
  /\ plog = <<>>

Next ==
  \/ Startup
  \/ Sync
  \/ ClassifyStart
  \/ _process_batch
  \/ ClassifyDone
  \/ Audit
  \/ AcquireStart
  \/ StampAttempt
  \/ Download
  \/ AcquireDone
  \/ ProcessStart
  \/ ProcessFile
  \/ ProcessDone
  \/ Cleanup
  \/ NextCycle

Spec == Init /\ [][Next]_vars

\* ------------------------------------------------------------------ components alone
\* Rows the cycle writes: new, attempted, acquired, restricted.
RowSamples ==
  {NewRow([title |-> "t"]),
   [NewRow([title |-> "t"]) EXCEPT !.last_download_attempt = "1"],
   [NewRow([title |-> "t"]) EXCEPT !.downloaded = 1, !.last_download_attempt = "1"],
   [NewRow([title |-> "t"]) EXCEPT !.is_downloadable = 0, !.restriction_reason = ReasonPlus],
   [NewRow([title |-> "t"]) EXCEPT !.is_downloadable = 0, !.restriction_reason = ReasonDetected,
                  !.last_download_attempt = "1"]}

Stores == UNION {[S -> RowSamples] : S \in SUBSET Asins}

InitRest ==
  /\ startup = "ok"
  /\ cycle = 1
  /\ USE_FOLDERS = FALSE
  /\ staging = {}
  /\ tree = <<>>
  /\ added_count = 0
  /\ added_asins = {}
  /\ listing_synced = 0
  /\ unchecked_books = <<>>
  /\ batch_i = 0
  /\ batch_log = <<>>
  /\ single_log = <<>>
  /\ answered = <<>>
  /\ issues_found = 0
  /\ fixed = 0
  /\ uncommitted = {}
  /\ downloadable_books = {}
  /\ dl_done = {}
  /\ dl_calls = <<>>
  /\ cur = <<>>
  /\ last_dl = [asin |-> <<>>, result |-> "none"]
  /\ demoted = {}
  /\ soft_failed = {}
  /\ soft_failed_prev = {}
  /\ audiobooks = {}
  /\ plog = <<>>

\* restriction_checker.check_all_restrictions() on any store
InitClassify ==
  /\ pc = "classify_start"
  /\ library = <<>>
  /\ db \in Stores
  /\ InitRest

NextClassify ==
  \/ ClassifyStart
  \/ _process_batch
  \/ ClassifyDone

SpecClassify == InitClassify /\ [][NextClassify]_vars

\* library_manager.update_library() called again and again on any store, the
\* remote listing changing or not between the calls.
\* Stores over the asins the remote can list: rows new, acquired, restricted.
SyncStores ==
  UNION {[S -> {NewRow([title |-> "t"]),
                [NewRow([title |-> "t"]) EXCEPT !.downloaded = 1, !.last_download_attempt = "1"],
                [NewRow([title |-> "t"]) EXCEPT !.is_downloadable = 0,
                                                !.restriction_reason = ReasonPlus]}]
           : S \in SUBSET {item.asin : item \in Items}}

InitSync ==
  /\ pc = "sync"
  /\ library \in Listings
  /\ db \in SyncStores
  /\ InitRest

\* One call; listing_synced counts (up to 2) the calls that fetched this listing.
SyncAgain ==
  /\ pc = "sync"
  /\ cycle <= MaxCycles
  /\ \E fetched \in BOOLEAN :
       LET r == update_library(db, IF fetched THEN library ELSE <<>>)
       IN /\ db' = r.db
          /\ added_count' = r.added_count
          /\ added_asins' = DOMAIN r.db \ DOMAIN db
          /\ listing_synced' = IF fetched THEN Min(listing_synced + 1, 2) ELSE listing_synced
  /\ cycle' = cycle + 1
  /\ UNCHANGED <<pc, startup, USE_FOLDERS, staging, tree, library,
                 classify_vars, audit_vars, acquire_vars, process_vars>>

\* The remote library loses its first item or gains one at the end.
RemoteChange ==
  /\ pc = "sync"
  /\ \/ library # <<>> /\ library' = Tail(library)
     \/ Len(library) < MaxListing /\ \E item \in Items : library' = Append(library, item)
  /\ listing_synced' = 0
  /\ UNCHANGED <<pc, startup, cycle, USE_FOLDERS, db, staging, tree, added_count, added_asins,
                 classify_vars, audit_vars, acquire_vars, process_vars>>

NextSync ==
  \/ SyncAgain
  \/ RemoteChange

SpecSync == InitSync /\ [][NextSync]_vars

\* check_all_restrictions() called again once it has returned, on the store
\* as the call before left it and with nothing inserted in between.
Reclassify ==
  /\ pc = "audit"
  /\ cycle < MaxCycles
  /\ cycle' = cycle + 1
  /\ pc' = "classify_start"
  /\ UNCHANGED <<startup, USE_FOLDERS, db, staging, tree, sync_vars, classify_vars,
                 audit_vars, acquire_vars, process_vars>>

NextReclassify ==
  \/ ClassifyStart
  \/ _process_batch
  \/ ClassifyDone
  \/ Reclassify

SpecReclassify == InitClassify /\ [][NextReclassify]_vars

\* What get_book_details may answer when it is not held to the asins it was
\* asked about: items for any asins, at least one of them outside the batch.
\* One item per verdict is enough there: no flag, is_ayce, suppressed.
FlagSamples ==
  {f \in Flags : f.benefit_id = None /\ ~(f.is_ayce /\ f.is_purchasability_suppressed)}

UnaskedAnswers(asins) ==
  UNION {[S -> FlagSamples] : S \in {T \in SUBSET Asins : ~(T \subseteq Range(asins))}}

\* One iteration of the loop whose batch answer names asins that were not
\* asked: _process_batch_response takes each asin from its item.
_process_batch_unasked ==
  /\ pc = "classify"
  /\ batch_i < Len(unchecked_books)
  /\ LET batch == Batch(batch_i)
     IN \E api_data \in UnaskedAnswers(batch) :
          /\ db' = _process_batch_response(db, api_data, OrderByAsin(DOMAIN api_data))
          /\ batch_log' = Append(batch_log, [asins |-> batch, ok |-> TRUE])
          /\ answered' = [a \in DOMAIN api_data |->
                            [path |-> "batch",
                             call |-> [kind |-> "item", data |-> api_data[a]]]]
  /\ batch_i' = batch_i + API_BATCH_SIZE
  /\ UNCHANGED <<pc, startup, cycle, USE_FOLDERS, staging, tree, sync_vars, unchecked_books,
                 single_log, audit_vars, acquire_vars, process_vars>>

\* check_all_restrictions() on any store, with a detail collaborator that may
\* answer about any asin.
NextClassifyAny ==
  \/ ClassifyStart
  \/ _process_batch
  \/ _process_batch_unasked
  \/ ClassifyDone

SpecClassifyAny == InitClassify /\ [][NextClassifyAny]_vars

\* The run is interrupted (KeyboardInterrupt, a kill, a power cut) at an item
\* boundary of a loop whose writes the store commits one by one: before or
\* after a batch of check_all_restrictions, an entry of download_new_titles,
\* a file of process_downloaded_files.  The process ends with the store as
\* committed.
Interrupt ==
  /\ pc \in {"classify", "acquire", "process"}
  /\ pc' = "aborted"
  /\ UNCHANGED <<startup, cycle, USE_FOLDERS, db, staging, tree, sync_vars, classify_vars,
                 audit_vars, acquire_vars, process_vars>>

\* The same inside verify_and_fix, between two items of its repair loops: the
\* resets of the missing asins come first, then the corrupted files one by
\* one.  The files the finished items removed are gone; their UPDATEs wait for
\* the con.commit() after the loops, which is never reached.
Audit_interrupted ==
  /\ pc = "audit"
  /\ \E m_done \in SUBSET missing_asins(db, tree), c_done \in SUBSET corrupted_files(db, tree) :
       /\ c_done # {} => m_done = missing_asins(db, tree)
       /\ m_done # missing_asins(db, tree) \/ c_done # corrupted_files(db, tree)
       /\ m_done \cup c_done # {}
       /\ tree' = [f \in DOMAIN tree \ {i.file : i \in {j \in c_done : exists(tree, j.file)}}
                     |-> tree[f]]
       /\ fixed' = Cardinality(m_done) + Cardinality(c_done)
       /\ uncommitted' = m_done \cup {i.asin : i \in c_done}
  /\ pc' = "aborted"
  /\ UNCHANGED <<startup, cycle, USE_FOLDERS, db, staging, sync_vars, classify_vars,
                 issues_found, acquire_vars, process_vars>>

\* The same inside _process_single_file, after mark_downloaded has committed
\* and before _convert_audiobook has returned: the stale destination may or
\* may not have been removed yet, and FFmpeg may have written its output in
\* part or in full (the source is removed only after it has returned).
ProcessFile_interrupted ==
  /\ pc = "process"
  /\ \E audiobook_file \in audiobooks \ DOMAIN plog :
       LET asin == SplitFirst(audiobook_file)
           dest == dest_name(audiobook_file)
       IN /\ _validate_asin(db, asin, audiobook_file)
          /\ db' = mark_downloaded(db, asin)
          /\ \/ tree' = tree
             \/ exists(tree, dest) /\ tree' = [f \in DOMAIN tree \ {dest} |-> tree[f]]
             \/ \E size \in OutputSizes :
                  tree' = [f \in DOMAIN tree \cup {dest} |->
                             IF f = dest THEN [readable |-> TRUE, size |-> size]
                             ELSE tree[f]]
  /\ pc' = "aborted"
  /\ UNCHANGED <<startup, cycle, USE_FOLDERS, staging, sync_vars, classify_vars,
                 audit_vars, acquire_vars, process_vars>>

NextInterrupted ==
  \/ Next
  \/ Interrupt
  \/ Audit_interrupted
  \/ ProcessFile_interrupted

\* The commits do not depend on the folder mode: the flat layout is taken.
InitInterrupted == Init /\ ~USE_FOLDERS

SpecInterrupted == InitInterrupted /\ [][NextInterrupted]_vars

\* ------------------------------------------------------------------ claims
\* C1: when check_all_restrictions has returned, no entry of the list it read
\* at its start is still returned by get_unchecked_books.
C1_NoPendingLeft ==
  pc = "audit" =>
    \A a \in Range(unchecked_books) : a \notin Range(get_unchecked_books(db))

\* C2: in every state of the store, a row has a restriction_reason exactly
\* when its is_downloadable is 0.
C2_ReasonIffRestricted ==
  \A a \in DOMAIN db :
    (db[a].restriction_reason # None) <=> (db[a].is_downloadable = 0)

C2_Witness ==
  /\ pc = "idle"
  /\ \E a, b \in DOMAIN db :
       /\ db[a].restriction_reason = ReasonDetected /\ db[a].is_downloadable = 0
       /\ db[b].restriction_reason = None /\ db[b].downloaded = 1

\* C3: while download_book runs for an entry, and for every entry the loop has
\* passed (whatever the download did), last_download_attempt is this
\* attempt's timestamp: it was committed before the download was invoked.
C3_StampBeforeDownload ==
  /\ pc = "download" => db[cur].last_download_attempt = now
  /\ pc \in {"acquire", "download"} =>
       \A a \in dl_done : db[a].last_download_attempt = now

C3_Witness ==
  /\ pc = "download"
  /\ cycle > 1
  /\ db[cur].last_download_attempt = now
  /\ \E a \in dl_done : last_dl = [asin |-> a, result |-> "raised"]

C5_RetriedNextCycle ==
  /\ (pc = "acquire" /\ last_dl.result \in {"other output", "raised"}) =>
       /\ db[last_dl.asin].is_downloadable = 1
       /\ db[last_dl.asin].downloaded = 0
  /\ pc \in {"acquire", "download"} => soft_failed_prev \subseteq downloadable_books

\* C6: for a processed raw file "<id>_p.<rawext>" whose id is a row of the
\* store, the row is downloaded = 1, and the file is gone from staging exactly
\* when its conversion succeeded.
C6_ProcessedFile ==
  pc \in {"process", "cleanup"} =>
    \A f \in DOMAIN plog : \A a \in DOMAIN db : \A ext \in {EXT_AAX, EXT_AAXC} :
      f = RawName(a[1], ext) =>
        /\ db[a].downloaded = 1
        /\ (f \notin staging) <=> (plog[f] = "converted")

C6_Witness ==
  /\ pc = "cleanup"
  /\ \E f, g \in DOMAIN plog :
       /\ plog[f] = "converted" /\ f \notin staging
       /\ plog[g] = "ffmpeg_failed" /\ g \in staging
       /\ SplitFirst(f) \in DOMAIN db /\ SplitFirst(g) \in DOMAIN db

C8_AuditedAcquired ==
  (pc = "acquire_start" /\ issues_found >= 0 /\ fixed = issues_found) =>
    \A a \in DOMAIN db :
      db[a].downloaded = 1 =>
        /\ \E f \in DOMAIN tree : StartsWith(f, a)
        /\ \A f \in DOMAIN tree :
             StartsWith(f, a) => tree[f].readable /\ tree[f].size >= MinSize

C8_Witness ==
  /\ pc = "acquire_start"
  /\ issues_found > 0
  /\ fixed = issues_found
  /\ \E a, b \in DOMAIN db :
       /\ db[a].downloaded = 1
       /\ db[b].downloaded = 0 /\ db[b].last_download_attempt # None
       /\ \A f \in DOMAIN tree : ~StartsWith(f, b)

\* C9: a classification of n pending entries with batch size b has issued
\* ceil(n/b) batch queries, the k-th over entries (k-1)b+1 .. min(kb, n) of the
\* asin-ordered list, no single query for a batch that succeeded and one per
\* entry, in order, for a batch that failed.
RECURSIVE FailedAsins(_)
FailedAsins(log) ==
  IF log = <<>> THEN <<>>
  ELSE (IF Head(log).ok THEN <<>> ELSE Head(log).asins) \o FailedAsins(Tail(log))

C10_SyncIdempotent ==
  [][(library' = library /\ listing_synced >= 1) =>
       (db' = db /\ added_count' = 0)]_vars

C10_Witness ==
  /\ listing_synced = 2
  /\ added_count = 0
  /\ \E i, j \in 1..Len(library) : i # j /\ library[i].asin = library[j].asin
  /\ {item.asin : item \in Range(library)} \subseteq DOMAIN db

metadata_path(row) ==
  [folder |-> [kind |-> "metadata", title |-> row.title],
   file |-> [kind |-> "title", title |-> row.title]]

C12_DestinationFromMetadata ==
  (pc \in {"process", "cleanup"} /\ USE_FOLDERS) =>
    \A f \in DOMAIN plog :
      plog[f] = "converted" =>
        dest_path(db, f, SplitFirst(f)) = metadata_path(db[SplitFirst(f)])

\* C13: control only moves along the order of run(): sync, classification,
\* audit, download (entry by entry), processing, cleanup, and then the next
\* start; and whatever a step did or failed to do, the cycle is never stuck
\* before its end.
StepOrder ==
  {<<"sync", "classify_start">>, <<"classify_start", "classify">>,
   <<"classify", "audit">>, <<"audit", "acquire_start">>,
   <<"acquire_start", "acquire">>, <<"acquire", "download">>,
   <<"download", "acquire">>, <<"acquire", "process_start">>,
   <<"process_start", "process">>, <<"process", "cleanup">>,
   <<"cleanup", "idle">>, <<"idle", "start">>,
   <<"start", "sync">>, <<"start", "aborted">>, <<"aborted", "start">>}

C13_StepsInOrder ==
  /\ [](pc \notin {"idle", "aborted"} => ENABLED Next)
  /\ [][pc' # pc => <<pc, pc'>> \in StepOrder]_vars

\* A cycle has ended in which the sync added nothing, the audit failed, a
\* download raised and a conversion failed.
C13_Witness ==
  /\ pc = "idle"
  /\ added_count = 0
  /\ issues_found = -1
  /\ last_dl.result = "raised"
  /\ \E f \in DOMAIN plog : plog[f] = "ffmpeg_failed"

\* C14: the work set download_new_titles reads is the rows with
\* is_downloadable = 1 and downloaded = 0; download_book is called at most
\* once per entry of it, and once the pass is over exactly once for each,
\* whatever the downloads before it did.
C14_EachDownloadedOnce ==
  /\ (pc = "acquire" /\ dl_done = {}) =>
       downloadable_books =
         {a \in DOMAIN db : db[a].is_downloadable = 1 /\ db[a].downloaded = 0}
  /\ pc \in {"acquire", "download"} =>
       /\ DOMAIN dl_calls = downloadable_books
       /\ \A a \in downloadable_books : dl_calls[a] = IF a \in dl_done THEN 1 ELSE 0
  /\ pc \in {"process_start", "process", "cleanup", "idle"} =>
       /\ DOMAIN dl_calls = downloadable_books
       /\ \A a \in downloadable_books : dl_calls[a] = 1

\* A pass over two entries has ended: one download failed or raised, the
\* other, made after it, went through.
C14_Witness ==
  /\ pc = "process_start"
  /\ Cardinality(downloadable_books) = 2
  /\ soft_failed # {}
  /\ last_dl.result = "ok"
  /\ last_dl.asin \notin soft_failed

\* C15 as stated: a step of process_downloaded_files whose conversion failed
\* or was skipped leaves the raw file in staging and the row downloaded = 1,
\* and the entry has no readable file of full size in the tree.
FailedOutcomes == {"ffmpeg_failed", "no_folder", "dest_locked"}

has_asset(t, asin) ==
  \E f \in found_files(t, asin) : t[f].readable /\ t[f].size >= MinSize

C16_UnresolvedUntouched ==
  [][/\ \A f \in _get_downloaded_files(staging) :
          SplitFirst(f) \notin DOMAIN db => f \in staging'
     /\ \A f \in DOMAIN plog' \ DOMAIN plog :
          /\ SplitFirst(f) \notin DOMAIN db => plog'[f] = "unresolved"
          /\ plog'[f] = "unresolved" =>
               staging' = staging /\ tree' = tree /\ db' = db
     /\ (pc = "process" /\ pc' = "cleanup") => DOMAIN plog = audiobooks]_vars

\* A pass has handled an unresolved file, which is still in staging, and
\* converted another file.
C16_Witness ==
  /\ pc = "cleanup"
  /\ \E f, g \in DOMAIN plog :
       /\ plog[f] = "unresolved"
       /\ f \in staging
       /\ SplitFirst(f) \notin DOMAIN db
       /\ plog[g] = "converted"

\* C17: no step removes a row from the store, and the sync step leaves every
\* row that was there as it was, whatever the listing says about its asin.
C17_RowsKept ==
  [][/\ DOMAIN db \subseteq DOMAIN db'
     /\ pc = "sync" => \A a \in DOMAIN db : db'[a] = db[a]]_vars

\* A sync has just run on a listing that names, under another title, an asin
\* whose row an earlier cycle has marked downloaded.
C17_Witness ==
  /\ pc = "classify_start"
  /\ cycle > 1
  /\ \E i \in 1..Len(library) :
       /\ library[i].asin \in DOMAIN db
       /\ library[i].title # db[library[i].asin].title
       /\ db[library[i].asin].downloaded = 1

\* C18: a start at which the store could not be opened or the activation
\* bytes could not be had ends aborted, with the store, staging and the tree
\* as they were; an aborted cycle takes no step but the next start; and the
\* steps of run() are only reached after a start that went well.
C18_FatalStartAborts ==
  /\ [](/\ startup \in {"store_failed", "activation_failed"} => pc = "aborted"
        /\ pc \notin {"start", "aborted"} => startup = "ok")
  /\ [][/\ startup' \in {"store_failed", "activation_failed"} =>
             db' = db /\ staging' = staging /\ tree' = tree
        /\ pc = "aborted" => pc' = "start" /\ db' = db /\ staging' = staging]_vars

\* A later cycle was aborted over the activation bytes, with rows in the store
\* that it would have downloaded and raw files that it would have processed.
C18_Witness ==
  /\ pc = "aborted"
  /\ cycle > 1
  /\ startup = "activation_failed"
  /\ get_downloadable_books(db) # {}
  /\ _get_downloaded_files(staging) # {}

\* C19: a sync whose listing call failed or came back empty leaves the store
\* as it was, adds nothing, and hands over to the classification, which can
\* then start.
C19_EmptyListing ==
  /\ []((pc = "classify_start" /\ library = <<>>) => ENABLED ClassifyStart)
  /\ [][(pc = "sync" /\ library' = <<>>) =>
          (db' = db /\ added_count' = 0 /\ pc' = "classify_start")]_vars

\* A later cycle's sync got no listing while the store holds rows to classify.
C19_Witness ==
  /\ pc = "classify_start"
  /\ cycle > 1
  /\ library = <<>>
  /\ added_count = 0
  /\ get_unchecked_books(db) # <<>>

C21_SecondRunIdle ==
  (cycle > 1 /\ pc \in {"classify", "audit"}) =>
    /\ unchecked_books = <<>>
    /\ batch_log = <<>>
    /\ single_log = <<>>

\* C22: a step of check_all_restrictions changes is_downloadable and
\* restriction_reason only of rows that were in the list read at its start,
\* leaves every other row as it was whatever the detail query answered, and
\* changes downloaded and last_download_attempt of no row.
C22_OnlyPendingTouched ==
  [][pc = "classify" =>
       /\ DOMAIN db' = DOMAIN db
       /\ \A a \in DOMAIN db :
            /\ a \notin Range(unchecked_books) => db'[a] = db[a]
            /\ db'[a].downloaded = db[a].downloaded
            /\ db'[a].last_download_attempt = db[a].last_download_attempt
            /\ db'[a].title = db[a].title]_vars

\* C23: when the run has been interrupted between two items of a step, every
\* write made for the items before is in the store: a row whose reset the
\* audit had executed is downloaded = 0.
C23_PerformedIsDurable ==
  pc = "aborted" => \A a \in uncommitted : db[a].downloaded = 0

\* C24: no step of download_new_titles changes downloaded of any row; every
\* entry of its work set is downloaded = 0 until process_downloaded_files runs,
\* and is downloaded = 1 after that only if a raw file carrying its id was
\* handled there.
C24_AcquireLeavesFlag ==
  /\ [](/\ pc \in {"acquire", "download", "process_start"} =>
             \A a \in downloadable_books : db[a].downloaded = 0
        /\ pc \in {"process", "cleanup"} =>
             \A a \in downloadable_books :
               db[a].downloaded = 1 =>
                 \E f \in DOMAIN plog : SplitFirst(f) = a /\ plog[f] # "unresolved")
  /\ [][(pc \in {"acquire_start", "acquire", "download"}) =>
          /\ DOMAIN db' = DOMAIN db
          /\ \A a \in DOMAIN db : db'[a].downloaded = db[a].downloaded]_vars

\* The pass is over: one download delivered its files, another failed, and the
\* rows of both are downloaded = 0.
C24_Witness ==
  /\ pc = "process_start"
  /\ \E a, b \in downloadable_books :
       /\ RawName(a[1], EXT_AAXC) \in staging
       /\ db[a].downloaded = 0
       /\ b \in soft_failed
       /\ db[b].downloaded = 0
  /\ last_dl.result = "ok"

\* C25: in every step of download_new_titles a row that is restricted
\* (is_downloadable = 0) stays exactly as it is, and so does a row that is
\* downloaded = 1; neither is in the work set the pass reads, neither becomes
\* the entry that download_book and the probe are called for, and the count
\* of download calls of neither changes.
C25_RestrictedUntouched ==
  [][(pc \in {"acquire_start", "acquire", "download"}) =>
       \A a \in DOMAIN db :
         (db[a].is_downloadable = 0 \/ db[a].downloaded = 1) =>
           /\ db'[a] = db[a]
           /\ cur' # a
           /\ pc = "acquire_start" => a \notin downloadable_books'
           /\ a \in DOMAIN dl_calls' => (a \in DOMAIN dl_calls /\ dl_calls'[a] = dl_calls[a])]_vars

\* A pass of a later cycle has downloaded an entry while the store holds a
\* row that was restricted, with its reason, when the pass read its work set.
C25_Witness ==
  /\ pc = "acquire"
  /\ cycle > 1
  /\ dl_done # {}
  /\ last_dl.result = "ok"
  /\ \E a \in DOMAIN db \ downloadable_books :
       /\ db[a].is_downloadable = 0
       /\ db[a].downloaded = 0
       /\ db[a].restriction_reason = ReasonPlus

\* C26: an audit that returns a count returns the number of rows it took
\* from downloaded = 1 to downloaded = 0.
C26_ReturnsRepaired ==
  [][(pc = "audit" /\ pc' = "acquire_start" /\ issues_found' >= 0) =>
       issues_found' =
         Cardinality({a \in DOMAIN db : db[a].downloaded = 1 /\ db'[a].downloaded = 0})]_vars

\* C27: the exit status of the audit process is the number of issues it
\* found, and is negative when it ended on a fatal error.
C27_ExitCodeIsCount ==
  pc = "acquire_start" =>
    IF issues_found >= 0
    THEN sys_exit(issues_found) = issues_found
    ELSE sys_exit(issues_found) < 0

\* C28: a row with is_downloadable = 1 that the audit takes from downloaded = 1
\* to 0 keeps is_downloadable = 1; the step after the audit is the reading of
\* the work set of download_new_titles, which holds every row that is
\* downloaded = 0 and is_downloadable = 1; and the pass ends only when
\* download_book has been called for every entry of the work set.
C28_ResetIsRedownloaded ==
  [][/\ pc = "audit" =>
          /\ pc' = "acquire_start"
          /\ \A a \in DOMAIN db :
               (db[a].downloaded = 1 /\ db'[a].downloaded = 0 /\ db[a].is_downloadable = 1) =>
                 db'[a].is_downloadable = 1
     /\ pc = "acquire_start" =>
          /\ pc' = "acquire"
          /\ db' = db
          /\ \A a \in DOMAIN db :
               (db[a].downloaded = 0 /\ db[a].is_downloadable = 1) => a \in downloadable_books'
     /\ (pc = "acquire" /\ pc' = "process_start") =>
          \A a \in downloadable_books : dl_calls[a] = 1]_vars

\* The store holds one row, acquired in an earlier cycle; this cycle's audit
\* found its file missing or bad and reset it, and download_book is now
\* running for it.
C28_Witness ==
  /\ pc = "download"
  /\ cycle > 1
  /\ Cardinality(DOMAIN db) = 1
  /\ issues_found = 1
  /\ fixed = 1
  /\ cur \in downloadable_books
  /\ db[cur].downloaded = 0
  /\ db[cur].last_download_attempt = now

\* C29: the row of an asin for which the last batch query or single query
\* returned an item is, by the item's flags: restricted with the Audible Plus
\* reason if is_ayce is set or benefit_id is "AYCL"; otherwise restricted with
\* the purchase-suppression reason, which is another string, if
\* is_purchasability_suppressed is set; otherwise eligible with no reason.
\* The path the item came on makes no difference.
C29_EligibilityRule ==
  /\ ReasonPlus # ReasonSuppressed
  /\ pc = "classify" =>
       \A a \in DOMAIN answered \cap DOMAIN db :
         answered[a].call.kind = "item" =>
           LET f == answered[a].call.data
               streaming == f.is_ayce \/ f.benefit_id = "AYCL"
           IN /\ streaming =>
                   /\ db[a].is_downloadable = 0
                   /\ db[a].restriction_reason = ReasonPlus
              /\ (~streaming /\ f.is_purchasability_suppressed) =>
                   /\ db[a].is_downloadable = 0
                   /\ db[a].restriction_reason = ReasonSuppressed
              /\ (~streaming /\ ~f.is_purchasability_suppressed) =>
                   /\ db[a].is_downloadable = 1
                   /\ db[a].restriction_reason = None

\* A first batch was answered and left a row restricted with the Audible Plus
\* reason; the second batch failed and a single query returned an item with
\* the suppression flag, whose row carries the suppression reason.
C29_Witness ==
  /\ pc = "classify"
  /\ Len(batch_log) = 2
  /\ batch_log[1].ok
  /\ ~batch_log[2].ok
  /\ \E a \in Range(batch_log[1].asins) :
       /\ db[a].is_downloadable = 0
       /\ db[a].restriction_reason = ReasonPlus
  /\ \E a \in DOMAIN answered :
       /\ answered[a].path = "single"
       /\ answered[a].call.kind = "item"
       /\ answered[a].call.data.is_purchasability_suppressed
       /\ db[a].restriction_reason = ReasonSuppressed

\* C30: after a failed batch every asin of it has had its single query, and
\* its row is by the way that query went: an item, the verdict of the rule;
\* no item in a call that succeeded, restricted with the "No API data
\* available" reason; a call that failed or a check that raised, restricted
\* with the reason that carries the error.
C30_FallbackOutcomes ==
  (pc = "classify" /\ batch_log # <<>> /\ ~batch_log[Len(batch_log)].ok) =>
    /\ DOMAIN answered = Range(batch_log[Len(batch_log)].asins)
    /\ \A a \in DOMAIN answered :
         /\ answered[a].path = "single"
         /\ answered[a].call.kind = "item" =>
              db[a].restriction_reason \in {None, ReasonPlus, ReasonSuppressed}
         /\ answered[a].call.kind = "no_item" =>
              db[a].is_downloadable = 0 /\ db[a].restriction_reason = ReasonNoData
         /\ answered[a].call.kind \in {"failed", "raises"} =>
              db[a].is_downloadable = 0 /\ db[a].restriction_reason = ReasonError

\* C31: a step of process_downloaded_files that takes up a raw file whose id
\* is a row of the store leaves that row downloaded = 1 whatever becomes of
\* the conversion: it fails, it is skipped, or the run is interrupted before
\* it has ended (the raw file is then still in staging).
C31_MarkedBeforeConversion ==
  [][pc = "process" =>
       /\ \A f \in DOMAIN plog' \ DOMAIN plog :
            plog'[f] # "unresolved" => db'[SplitFirst(f)].downloaded = 1
       /\ (pc' = "aborted" /\ (db' # db \/ tree' # tree)) =>
            \E f \in audiobooks \ DOMAIN plog :
              /\ SplitFirst(f) \in DOMAIN db
              /\ db'[SplitFirst(f)].downloaded = 1
              /\ f \in staging']_vars

\* The run was interrupted in the conversion of the first file of a pass: the
\* entry, downloaded in this cycle, is downloaded = 1, its raw file is in
\* staging and the tree holds no file of it.
C31_Witness ==
  /\ pc = "aborted"
  /\ DOMAIN plog = {}
  /\ \E f \in audiobooks :
       /\ f \in staging
       /\ SplitFirst(f) \in downloadable_books
       /\ db[SplitFirst(f)].downloaded = 1
       /\ found_files(tree, SplitFirst(f)) = {}

\* C32: when the destination of a resolved raw file already stands in the
\* tree, the step of process_downloaded_files that handles the file removes
\* the standing copy and dispatches the conversion: it never ends with the
\* conversion skipped over the standing copy.
C32_StaleNeverBlocks ==
  [][pc = "process" =>
       \A f \in DOMAIN plog' \ DOMAIN plog :
         (plog'[f] # "unresolved" /\ exists(tree, dest_name(f))) =>
           /\ plog'[f] # "dest_locked"
           /\ plog'[f] = "ffmpeg_failed" => dest_name(f) \notin DOMAIN tree']_vars

\* C33: the step of process_downloaded_files that converts a resolved .aaxc
\* file removes from staging the raw file and the one voucher the conversion
\* succeeded with, and nothing else; a step whose conversion did not succeed
\* removes nothing from staging.
C33_VoucherLoop ==
  [][pc = "process" =>
       \A f \in DOMAIN plog' \ DOMAIN plog :
         (EndsWith(f, EXT_AAXC) /\ plog'[f] # "unresolved") =>
           /\ plog'[f] = "converted" =>
                \E v \in staging : /\ EndsWith(v, EXT_VOUCHER)
                                   /\ staging' = staging \ {f, v}
           /\ plog'[f] # "converted" => staging' = staging]_vars

\* C34: the audit step keeps the rows of the store, leaves a row that is
\* downloaded = 0 when it starts exactly as it is, changes no column of any
\* row other than downloaded, and removes from the tree only files found for
\* rows that were downloaded = 1 when it started.
C34_AuditTouchesAcquiredOnly ==
  [][pc = "audit" =>
       /\ DOMAIN db' = DOMAIN db
       /\ \A a \in DOMAIN db :
            /\ db[a].downloaded = 0 => db'[a] = db[a]
            /\ [db'[a] EXCEPT !.downloaded = db[a].downloaded] = db[a]
       /\ \A f \in DOMAIN tree \ DOMAIN tree' :
            \E a \in DOMAIN db : db[a].downloaded = 1 /\ f \in found_files(tree, a)]_vars

\* An audit has reset a row that had been tried before, and beside it stands
\* a restricted row that is downloaded = 0, with its reason.
C34_Witness ==
  /\ pc = "acquire_start"
  /\ issues_found > 0
  /\ fixed > 0
  /\ \E a \in DOMAIN db : /\ db[a].downloaded = 0
                          /\ db[a].is_downloadable = 1
                          /\ db[a].last_download_attempt # None
  /\ \E b \in DOMAIN db : /\ db[b].downloaded = 0
                          /\ db[b].is_downloadable = 0
                          /\ db[b].restriction_reason # None

\* C35: at the end of a cycle, a row that this cycle's sync inserted, that is
\* eligible, whose download succeeded and one of whose raw files FFmpeg
\* converted in this cycle's pass, is downloaded = 1, has a file in the tree,
\* and has no raw file left in staging.
downloaded_and_converted(a) ==
  /\ a \in added_asins
  /\ a \in downloadable_books
  /\ db[a].is_downloadable = 1
  /\ a \in dl_done \ soft_failed
  /\ \E f \in DOMAIN plog : SplitFirst(f) = a /\ plog[f] = "converted"

C35_ForwardProgress ==
  pc = "idle" =>
    \A a \in DOMAIN db :
      downloaded_and_converted(a) =>
        /\ db[a].downloaded = 1
        /\ found_files(tree, a) # {}
        /\ \A f \in _get_downloaded_files(staging) : SplitFirst(f) # a

\* The second cycle has ended; its sync inserted a row beside an older one,
\* and the new row was downloaded and converted in this cycle.
C35_Witness ==
  /\ pc = "idle"
  /\ cycle = 2
  /\ \E a \in DOMAIN db :
       /\ downloaded_and_converted(a)
       /\ DOMAIN db \ added_asins # {}
       /\ db[a].downloaded = 1
       /\ found_files(tree, a) # {}

\* C36: a row that is downloaded = 1, has a readable file of full size in the
\* tree and has not been handed to the download collaborator in the running
\* cycle keeps all three at every step of the cycle: no step resets its flag,
\* takes its file away, puts it in the work set of the download loop or stamps
\* an attempt on it.
C36_Stable ==
  [][cycle' = cycle =>
       \A a \in DOMAIN db :
         (db[a].downloaded = 1 /\ has_asset(tree, a) /\ db[a].last_download_attempt # now) =>
           /\ db'[a].downloaded = 1
           /\ has_asset(tree', a)
           /\ db'[a].last_download_attempt = db[a].last_download_attempt
           /\ a \notin downloadable_books' \ dl_done']_vars

\* C37: a step that takes a row to downloaded = 1 (from downloaded = 0, or
\* from no row at all) is a step of process_downloaded_files, taken while a
\* raw file whose leading id is the row's asin is in staging.
C37_OnlyProcessingMarks ==
  [][\A a \in DOMAIN db' :
       ((a \notin DOMAIN db \/ db[a].downloaded = 0) /\ db'[a].downloaded = 1) =>
         /\ pc = "process"
         /\ \E f \in _get_downloaded_files(staging) : SplitFirst(f) = a]_vars

\* In the first cycle a row that the download loop was handed as
\* downloaded = 0 has been marked by the pass over staging.
C37_Witness ==
  /\ pc = "process"
  /\ cycle = 1
  /\ \E f \in DOMAIN plog :
       /\ plog[f] # "unresolved"
       /\ SplitFirst(f) \in downloadable_books
       /\ db[SplitFirst(f)].downloaded = 1

\* The one-shot tool verify_integrity.py, as far as its file search goes.
\* create_audiobook_path: the folder built from the row's metadata in folder
\* mode, the root of the tree otherwise.
create_audiobook_path(row) ==
  IF USE_FOLDERS THEN [kind |-> "metadata", title |-> row.title] ELSE [kind |-> "flat"]

\* `asin in filename`
Contains(s, sub) ==
  \E i \in 1..(Len(s) - Len(sub) + 1) : SubSeq(s, i, i + Len(sub) - 1) = sub

\* The folder a file of the tree lies in: where _convert_and_organize put it.
folder_of(d, g) == dest_path(d, g, SplitFirst(g)).folder

\* find_audiobook_files: os.walk from base_path (nothing when it does not
\* exist), keeping the names with a known extension that contain the asin.
find_audiobook_files(d, t, base_path, asin) ==
  {g \in DOMAIN t : /\ base_path.kind = "flat" \/ folder_of(d, g) = base_path
                    /\ \/ EndsWith(g, EXT_M4B)
                       \/ EndsWith(g, EXT_AAX)
                       \/ EndsWith(g, EXT_AAXC)
                    /\ Contains(g, asin)}

\* C38: the file that a successful conversion puts in the tree is found for
\* its row by the file search of the audit of the cycle and by the file
\* search of the one-shot tool, in the flat and in the folder layout; if it is
\* of full size the row is not among the audit's missing ones.
C38_PlacementFound ==
  [][pc = "process" =>
       \A f \in DOMAIN plog' \ DOMAIN plog :
         plog'[f] = "converted" =>
           LET asin == SplitFirst(f)
           IN /\ dest_name(f) \in found_files(tree', asin)
              /\ tree'[dest_name(f)].size >= MinSize => asin \notin missing_asins(db', tree')
              /\ dest_name(f) \in
                   find_audiobook_files(db', tree', create_audiobook_path(db'[asin]), asin)]_vars

\* The same for the audit of the cycle alone.
C38_CycleAuditFinds ==
  [][pc = "process" =>
       \A f \in DOMAIN plog' \ DOMAIN plog :
         plog'[f] = "converted" =>
           /\ dest_name(f) \in found_files(tree', SplitFirst(f))
           /\ SplitFirst(f) \notin missing_asins(db', tree')]_vars

\* ------------------------------------------------------------------ the audit alone
\* auto_integrity_check.py run on any store and any asset tree in which an
\* entry may have up to two matching files: the converted asset and a raw
\* .aax of the same id (the file search takes .m4b, .aax and .aaxc alike).
FileStates ==
  {[readable |-> TRUE, size |-> MinSize], [readable |-> TRUE, size |-> MinSize - 1],
   [readable |-> TRUE, size |-> 0], [readable |-> FALSE, size |-> 0]}

AuditFiles ==
  UNION {{dest_name(RawName(item.asin[1], EXT_AAX)), RawName(item.asin[1], EXT_AAX)}
           : item \in Items}

AuditTrees == UNION {[S -> FileStates] : S \in SUBSET AuditFiles}

InitAudit ==
  /\ pc = "audit"
  /\ startup = "ok"
  /\ cycle = 1
  /\ USE_FOLDERS \in BOOLEAN
  /\ library = <<>>
  /\ db \in SyncStores
  /\ staging = {}
  /\ tree \in AuditTrees
  /\ added_count = 0
  /\ added_asins = {}
  /\ listing_synced = 0
  /\ unchecked_books = <<>>
  /\ batch_i = 0
  /\ batch_log = <<>>
  /\ single_log = <<>>
  /\ answered = <<>>
  /\ issues_found = 0
  /\ fixed = 0
  /\ uncommitted = {}
  /\ downloadable_books = {}
  /\ dl_done = {}
  /\ dl_calls = <<>>
  /\ cur = <<>>
  /\ last_dl = [asin |-> <<>>, result |-> "none"]
  /\ demoted = {}
  /\ soft_failed = {}
  /\ soft_failed_prev = {}
  /\ audiobooks = {}
  /\ plog = <<>>

NextAudit == Audit

SpecAudit == InitAudit /\ [][NextAudit]_vars

\* C39: the audit step leaves downloaded = 1 on every row that has a
\* readable file of full size in the tree, and removes no readable file of
\* full size, however many files match the row.
C39_AuditSparesGood ==
  [][pc = "audit" =>
       /\ \A a \in DOMAIN db :
            (db[a].downloaded = 1 /\ has_asset(tree, a)) => db'[a].downloaded = 1
       /\ \A f \in DOMAIN tree \ DOMAIN tree' :
            ~(tree[f].readable /\ tree[f].size >= MinSize)]_vars

\* The second half alone: no readable file of full size is removed.
C39_GoodFilesKept ==
  [][pc = "audit" =>
       \A f \in DOMAIN tree \ DOMAIN tree' :
         ~(tree[f].readable /\ tree[f].size >= MinSize)]_vars

\* What run_integrity_check_and_fix prints for the exit status it reads.
run_integrity_check_and_fix(returncode) ==
  IF returncode >= 0
  THEN IF returncode > 0
       THEN [kind |-> "fixed", n |-> returncode]
       ELSE [kind |-> "no issues", n |-> 0]
  ELSE [kind |-> "encountered errors", n |-> 0]

\* C40: after the audit step, the orchestrator reports "encountered errors"
\* when verify_and_fix returned -1, and reports "fixed n issues" only with the
\* n that verify_and_fix found.
C40_ErrorsReported ==
  pc = "acquire_start" =>
    LET report == run_integrity_check_and_fix(sys_exit(issues_found))
    IN /\ issues_found = -1 => report.kind = "encountered errors"
       /\ report.kind = "fixed" => report.n = issues_found

====
